---- MODULE Spec2Model ----
(***************************************************************************)
(* Model of main.py: the /convert and /test-email request handlers, the    *)
(* bearer check, the calibre invocation, the SMTP session and the          *)
(* temporary workspace.  Text is a sequence of one-character strings, an   *)
(* Optional[str] is <<>> (None) or <<text>>.                               *)
(***************************************************************************)
EXTENDS Integers, Sequences, FiniteSets, TLC

\* ---------------------------------------------------------------- bounds
\* Number of requests in flight together.
NumReqs == 2
\* Longest text an external tool or the mail transport produces.
MaxErrLen == 2

Reqs == 1..NumReqs
\* Names tempfile can hand out: as many as there are requests, so that a
\* free one is left whenever a request asks and a name is reused after removal.
DirNames == 1..NumReqs

\* ------------------------------------------------- configuration (l.30-41)
\* MAX_PDF_BYTES, scaled from 25 MiB.
MAX_PDF_BYTES == 1
\* The stderr tail kept in the failure detail, scaled from 2000.
STDERR_TAIL == 1
KINDLE_EMAIL == "kindle@example.com"
\* The address the fallback of /test-email writes to.
FALLBACK_TO == "ozzy.dave@gmail.com"

\* ------------------------------------------------------------ text helpers
Bearer == <<"B", "e", "a", "r", "e", "r", " ">>
S3 == <<"s", "3">>

Whitespace == {" ", "\t"}

\* str.startswith
startswith(s, p) == Len(s) >= Len(p) /\ SubSeq(s, 1, Len(p)) = p

\* str.split(sep, 1): the list of at most two parts around the first sep.
split1(s, sep) ==
  IF \E i \in 1..Len(s) : s[i] = sep
  THEN LET i == CHOOSE k \in 1..Len(s) :
                  s[k] = sep /\ \A j \in 1..(k - 1) : s[j] # sep
       IN  <<SubSeq(s, 1, i - 1), SubSeq(s, i + 1, Len(s))>>
  ELSE <<s>>

RECURSIVE lstrip(_)
lstrip(s) == IF s # <<>> /\ Head(s) \in Whitespace THEN lstrip(Tail(s)) ELSE s

RECURSIVE rstrip(_)
rstrip(s) ==
  IF s # <<>> /\ s[Len(s)] \in Whitespace
  THEN rstrip(SubSeq(s, 1, Len(s) - 1)) ELSE s

\* str.strip
strip(s) == rstrip(lstrip(s))

\* Variant of require_bearer: the token is compared without .strip().
require_bearer_nostrip(authorization, secret) ==
  IF authorization = <<>> \/ authorization[1] = <<>> THEN 401
  ELSE IF ~startswith(authorization[1], Bearer) THEN 401
  ELSE LET token == split1(authorization[1], " ")[2]
       IN  IF token = <<>> THEN 401
           ELSE IF token # secret THEN 403
           ELSE 0

\* require_bearer: 0 when it returns, else the status of the HTTPException.
require_bearer(authorization, secret) ==
  IF authorization = <<>> \/ authorization[1] = <<>> THEN 401
  ELSE IF ~startswith(authorization[1], Bearer) THEN 401
  ELSE LET token == strip(split1(authorization[1], " ")[2])
       IN  IF token = <<>> THEN 401
           ELSE IF token # secret THEN 403
           ELSE 0

\* ------------------------------------------------------------------ state
VARIABLES
  SMTP_HOST,      \* "" when unset
  SMTP_TLS,
  SMTP_USER,      \* "" when unset
  BEARER_TOKEN,
  DEV_NULL,       \* whether the platform has /dev/null (POSIX has, Windows not)
  endpoint,       \* per request: "-", "/convert" or "/test-email"
  pc,             \* per request: the handler's position
  authorization,  \* per request: the Authorization header
  upload,         \* per request: the uploaded file's content_type and size
  td,             \* per request: its TemporaryDirectory, 0 when none
  stderr,         \* per request: e.stderr of the CalledProcessError, decoded
  exc,            \* per request: the HTTPException unwinding through `with`
  sess,           \* per request: position inside the SMTP session
  sexc,           \* per request: the exception the SMTP `with` body raised
  msg,            \* per request: the EmailMessage built
  response,       \* per request: the HTTP response, status 0 before it
  log,            \* per request: the calls made so far and how each ended
  sent,           \* per request: the messages the server accepted
  dirs,           \* each directory name: 0 absent, else the request that made it
  files           \* the files of each directory: -1 absent, else the size

vars == <<SMTP_HOST, SMTP_TLS, SMTP_USER, BEARER_TOKEN, endpoint, pc,
          authorization, upload, td, stderr, exc, sess, sexc, msg, response,
          log, sent, dirs, files, DEV_NULL>>

cfgvars == <<SMTP_HOST, SMTP_TLS, SMTP_USER, BEARER_TOKEN, DEV_NULL>>

FileNames == {"input.pdf", "output.epub"}

NoUpload == [content_type |-> "-", size |-> 0]
NoMsg == [to |-> "-", attachments |-> <<>>]
\* status 0: nothing raised / no response yet.  ext is the converter or
\* transport text embedded in the detail, <<>> when there is none.
NoResp == [status |-> 0, detail |-> "-", ext |-> <<>>]

\* A text of n characters produced outside the program; its i-th character
\* is written i.
Text(n) == [i \in 1..n |-> i]

HTTPException(status, detail, ext) ==
  [status |-> status, detail |-> detail, ext |-> ext]

Ev(op, ok) == [op |-> op, ok |-> ok]

\* The headers the handlers are exercised with (a missing header, the
\* configured token, a wrong token) ...
ReqHeaders == {<<>>, <<Bearer \o S3>>, <<Bearer \o <<"x">> >>}

\* ... and the ones require_bearer is classified on.
AllHeaders ==
  ReqHeaders \cup
  { <<s>> : s \in
      { <<>>,
        <<"B", "e", "a", "r", "e", "r">>,
        Bearer,
        Bearer \o <<" ", "\t">>,
        Bearer \o <<" ">> \o S3 \o <<" ">>,
        Bearer \o <<"\t">> \o S3,
        Bearer \o <<"s", " ", "3">>,
        Bearer \o S3 \o <<"x">>,
        <<"b", "e", "a", "r", "e", "r", " ">> \o S3,
        <<"B", "a", "s", "i", "c", " ">> \o S3,
        <<"B", "e", "a", "r", "e", "r">> \o S3,
        <<" ">> \o Bearer \o S3,
        S3 } }

Secrets == {S3, <<>>, <<"s", " ", "3">>, <<" ">> \o S3}

ContentTypes == {"application/pdf", "application/octet-stream", "text/plain"}
Sizes == {MAX_PDF_BYTES, MAX_PDF_BYTES + 1}

ReqInit ==
  /\ endpoint = [r \in Reqs |-> "-"]
  /\ pc = [r \in Reqs |-> "idle"]
  /\ authorization = [r \in Reqs |-> <<>>]
  /\ upload = [r \in Reqs |-> NoUpload]
  /\ td = [r \in Reqs |-> 0]
  /\ stderr = [r \in Reqs |-> <<>>]
  /\ exc = [r \in Reqs |-> NoResp]
  /\ sess = [r \in Reqs |-> "-"]
  /\ sexc = [r \in Reqs |-> "-"]
  /\ msg = [r \in Reqs |-> NoMsg]
  /\ response = [r \in Reqs |-> NoResp]
  /\ log = [r \in Reqs |-> <<>>]
  /\ sent = [r \in Reqs |-> <<>>]
  /\ dirs = [d \in DirNames |-> 0]
  /\ files = [d \in DirNames |-> [f \in FileNames |-> -1]]

\* The process environment is read once, at import (l.30-41).
Init ==
  /\ SMTP_HOST \in {"", "smtp.example.com"}
  /\ SMTP_TLS \in BOOLEAN
  /\ SMTP_USER \in {"", "user"}
  /\ BEARER_TOKEN = S3
  /\ DEV_NULL \in BOOLEAN
  /\ ReqInit

\* ------------------------------------------------------- request handlers
\* A handler ends: the framework turns the exception (or the returned
\* JSONResponse) into the response.
Respond(r, resp) ==
  /\ response' = [response EXCEPT ![r] = resp]
  /\ pc' = [pc EXCEPT ![r] = "done"]

Ok200 == [status |-> 200, detail |-> KINDLE_EMAIL, ext |-> <<>>]

AuthDetail(code) == IF code = 401 THEN "Missing bearer token"
                    ELSE "Invalid bearer token"

\* l.164: /convert starts with require_bearer.
convert_auth(r, h) ==
  /\ pc[r] = "idle"
  /\ endpoint' = [endpoint EXCEPT ![r] = "/convert"]
  /\ authorization' = [authorization EXCEPT ![r] = h]
  /\ LET code == require_bearer(h, BEARER_TOKEN) IN
       /\ log' = [log EXCEPT ![r] = Append(@, Ev("auth", code = 0))]
       /\ IF code = 0
          THEN /\ pc' = [pc EXCEPT ![r] = "check_type"]
               /\ UNCHANGED response
          ELSE Respond(r, HTTPException(code, AuthDetail(code), <<>>))
  /\ UNCHANGED <<cfgvars, stderr, upload, td, exc, sess, sexc, msg, sent, dirs, files>>

\* l.211: /test-email starts with require_bearer.
test_email_auth(r, h) ==
  /\ pc[r] = "idle"
  /\ endpoint' = [endpoint EXCEPT ![r] = "/test-email"]
  /\ authorization' = [authorization EXCEPT ![r] = h]
  /\ LET code == require_bearer(h, BEARER_TOKEN) IN
       /\ log' = [log EXCEPT ![r] = Append(@, Ev("auth", code = 0))]
       /\ IF code = 0
          THEN /\ pc' = [pc EXCEPT ![r] = "email_host"]
               /\ UNCHANGED response
          ELSE Respond(r, HTTPException(code, AuthDetail(code), <<>>))
  /\ UNCHANGED <<cfgvars, stderr, upload, td, exc, sess, sexc, msg, sent, dirs, files>>

\* Variant of convert_check_type: the size is compared before the type.
convert_check_type_size_first(r, ct, n) ==
  /\ pc[r] = "check_type"
  /\ upload' = [upload EXCEPT ![r] = [content_type |-> ct, size |-> n]]
  /\ IF n > MAX_PDF_BYTES
     THEN /\ log' = [log EXCEPT ![r] = Append(@, Ev("check_size", FALSE))]
          /\ Respond(r, HTTPException(413, "PDF too large", <<>>))
     ELSE IF ct \notin {"application/pdf", "application/octet-stream"}
     THEN /\ log' = [log EXCEPT ![r] = Append(@, Ev("check_type", FALSE))]
          /\ Respond(r, HTTPException(400, "Expected PDF", <<>>))
     ELSE /\ log' = [log EXCEPT ![r] = Append(@, Ev("check_type", TRUE))]
          /\ pc' = [pc EXCEPT ![r] = "check_size"]
          /\ UNCHANGED response
  /\ UNCHANGED <<cfgvars, stderr, endpoint, authorization, td, exc, sess, sexc, msg,
                 sent, dirs, files>>

\* l.166-168: the declared content type is looked at first.
convert_check_type(r, ct, n) ==
  /\ pc[r] = "check_type"
  /\ upload' = [upload EXCEPT ![r] = [content_type |-> ct, size |-> n]]
  /\ IF ct \notin {"application/pdf", "application/octet-stream"}
     THEN /\ log' = [log EXCEPT ![r] = Append(@, Ev("check_type", FALSE))]
          /\ Respond(r, HTTPException(400, "Expected PDF", <<>>))
     ELSE /\ log' = [log EXCEPT ![r] = Append(@, Ev("check_type", TRUE))]
          /\ pc' = [pc EXCEPT ![r] = "check_size"]
          /\ UNCHANGED response
  /\ UNCHANGED <<cfgvars, stderr, endpoint, authorization, td, exc, sess, sexc, msg,
                 sent, dirs, files>>

\* Variant of convert_check_size: the limit is off by one.
convert_check_size_off_by_one(r) ==
  /\ pc[r] = "check_size"
  /\ IF upload[r].size > MAX_PDF_BYTES + 1
     THEN /\ log' = [log EXCEPT ![r] = Append(@, Ev("check_size", FALSE))]
          /\ Respond(r, HTTPException(413, "PDF too large", <<>>))
     ELSE /\ log' = [log EXCEPT ![r] = Append(@, Ev("check_size", TRUE))]
          /\ pc' = [pc EXCEPT ![r] = "mkdtemp"]
          /\ UNCHANGED response
  /\ UNCHANGED <<cfgvars, stderr, endpoint, authorization, upload, td, exc, sess,
                 sexc, msg, sent, dirs, files>>

\* l.170-176: the upload is read whole, then its length is compared.
convert_check_size(r) ==
  /\ pc[r] = "check_size"
  /\ IF upload[r].size > MAX_PDF_BYTES
     THEN /\ log' = [log EXCEPT ![r] = Append(@, Ev("check_size", FALSE))]
          /\ Respond(r, HTTPException(413, "PDF too large", <<>>))
     ELSE /\ log' = [log EXCEPT ![r] = Append(@, Ev("check_size", TRUE))]
          /\ pc' = [pc EXCEPT ![r] = "mkdtemp"]
          /\ UNCHANGED response
  /\ UNCHANGED <<cfgvars, stderr, endpoint, authorization, upload, td, exc, sess,
                 sexc, msg, sent, dirs, files>>

\* Variant of tempdir_enter: one fixed directory name, made if it is absent.
tempdir_enter_fixed_name(r) ==
  /\ pc[r] = "mkdtemp"
  /\ \E d \in {1} :
       /\ dirs' = [dirs EXCEPT ![d] = r]
       /\ td' = [td EXCEPT ![r] = d]
       /\ log' = [log EXCEPT ![r] = Append(@, Ev("mkdtemp", TRUE))]
       /\ pc' = [pc EXCEPT ![r] = "write"]
       /\ UNCHANGED response
  /\ UNCHANGED <<cfgvars, stderr, endpoint, authorization, upload, exc, sess,
                 sexc, msg, sent, files>>

\* l.179, entering `with tempfile.TemporaryDirectory()`: mkdtemp makes a
\* directory under a name that does not exist, or fails (no temp storage)
\* and the unhandled OSError becomes the framework's 500.
tempdir_enter(r) ==
  /\ pc[r] = "mkdtemp"
  /\ \/ \E d \in {n \in DirNames : dirs[n] = 0} :
          /\ dirs' = [dirs EXCEPT ![d] = r]
          /\ td' = [td EXCEPT ![r] = d]
          /\ log' = [log EXCEPT ![r] = Append(@, Ev("mkdtemp", TRUE))]
          /\ pc' = [pc EXCEPT ![r] = "write"]
          /\ UNCHANGED response
     \/ /\ log' = [log EXCEPT ![r] = Append(@, Ev("mkdtemp", FALSE))]
        /\ Respond(r, HTTPException(500, "Internal Server Error", <<>>))
        /\ UNCHANGED <<dirs, td>>
  /\ UNCHANGED <<cfgvars, stderr, endpoint, authorization, upload, exc, sess, sexc,
                 msg, sent, files>>

\* l.180-185: pdf_path.write_bytes(raw).  A fault (disk full) leaves the file
\* absent or truncated and unwinds through the `with` as a plain exception.
write_input(r) ==
  /\ pc[r] = "write"
  /\ \/ /\ files' = [files EXCEPT ![td[r]]["input.pdf"] = upload[r].size]
        /\ log' = [log EXCEPT ![r] = Append(@, Ev("write", TRUE))]
        /\ pc' = [pc EXCEPT ![r] = "run"]
        /\ UNCHANGED exc
     \/ \E left \in {-1, 0} :
          /\ files' = [files EXCEPT ![td[r]]["input.pdf"] = left]
          /\ log' = [log EXCEPT ![r] = Append(@, Ev("write", FALSE))]
          /\ exc' = [exc EXCEPT ![r] =
                       HTTPException(500, "Internal Server Error", <<>>)]
          /\ pc' = [pc EXCEPT ![r] = "cleanup"]
  /\ UNCHANGED <<cfgvars, stderr, endpoint, authorization, upload, td, sess, sexc,
                 msg, response, sent, dirs>>

\* Variant of stderr_tail: the head stderr[:2000] is kept.
stderr_tail_head(s) ==
  SubSeq(s, 1, IF Len(s) > STDERR_TAIL THEN STDERR_TAIL ELSE Len(s))

\* stderr[-2000:]: a negative start counts from the end and stops at the
\* beginning of the text.
stderr_tail(s) ==
  LET start == IF Len(s) - STDERR_TAIL > 0 THEN Len(s) - STDERR_TAIL ELSE 0
  IN  SubSeq(s, start + 1, Len(s))

\* Variant of convert_failed: the exception is recorded and not raised, the
\* handler goes on to the mail step.
convert_failed_continue(r, detail, ext) ==
  /\ exc' = [exc EXCEPT ![r] = HTTPException(500, detail, ext)]
  /\ pc' = [pc EXCEPT ![r] = "email_host"]

\* What the caller of pdf_to_epub does with its exception (l.189-191).
convert_failed(r, detail, ext) ==
  /\ exc' = [exc EXCEPT ![r] = HTTPException(500, detail, ext)]
  /\ pc' = [pc EXCEPT ![r] = "cleanup"]

\* l.74-91: subprocess.run(cmd, check=True).  The tool is not found, or it
\* runs and exits non-zero with some stderr, or it exits 0; a tool that ran
\* has left no output file, an empty one or a non-empty one.
pdf_to_epub_run(r) ==
  /\ pc[r] = "run"
  /\ \/ /\ log' = [log EXCEPT ![r] = Append(@, Ev("spawn", FALSE))]
        /\ convert_failed(r, "Conversion failed: ebook-convert not found", <<>>)
        /\ UNCHANGED <<files, stderr>>
     \/ \E out \in {-1, 1}, n \in 0..MaxErrLen :
          /\ files' = [files EXCEPT ![td[r]]["output.epub"] = out]
          /\ log' = [log EXCEPT ![r] = Append(@, Ev("run", FALSE))]
          /\ stderr' = [stderr EXCEPT ![r] = Text(n)]
          /\ convert_failed(r, "Conversion failed: <stderr>",
                            stderr_tail(Text(n)))
     \/ \E out \in {-1, 0, 1} :
          /\ files' = [files EXCEPT ![td[r]]["output.epub"] = out]
          /\ log' = [log EXCEPT ![r] = Append(@, Ev("run", TRUE))]
          /\ pc' = [pc EXCEPT ![r] = "out_check"]
          /\ UNCHANGED <<exc, stderr>>
  /\ UNCHANGED <<cfgvars, endpoint, authorization, upload, td, sess, sexc,
                 msg, response, sent, dirs>>

\* Variant of pdf_to_epub_check: only the existence of the output is checked.
pdf_to_epub_check_exists_only(r) ==
  /\ pc[r] = "out_check"
  /\ IF files[td[r]]["output.epub"] = -1
     THEN /\ log' = [log EXCEPT ![r] = Append(@, Ev("out_check", FALSE))]
          /\ convert_failed(r, "Conversion failed: output EPUB was not created", <<>>)
     ELSE /\ log' = [log EXCEPT ![r] = Append(@, Ev("out_check", TRUE))]
          /\ pc' = [pc EXCEPT ![r] = "email_host"]
          /\ UNCHANGED exc
  /\ UNCHANGED <<cfgvars, stderr, endpoint, authorization, upload, td, sess, sexc,
                 msg, response, sent, dirs, files>>

\* Variant of pdf_to_epub_check: the handler polls until the output exists.
pdf_to_epub_check_poll(r) ==
  /\ pc[r] = "out_check"
  /\ IF files[td[r]]["output.epub"] = -1
     THEN UNCHANGED <<log, pc, exc>>
     ELSE IF files[td[r]]["output.epub"] = 0
     THEN /\ log' = [log EXCEPT ![r] = Append(@, Ev("out_check", FALSE))]
          /\ convert_failed(r, "Conversion failed: output EPUB was not created", <<>>)
     ELSE /\ log' = [log EXCEPT ![r] = Append(@, Ev("out_check", TRUE))]
          /\ pc' = [pc EXCEPT ![r] = "email_host"]
          /\ UNCHANGED exc
  /\ UNCHANGED <<cfgvars, stderr, endpoint, authorization, upload, td, sess,
                 sexc, msg, response, sent, dirs, files>>

\* l.93-97: the output must exist and be non-empty.
pdf_to_epub_check(r) ==
  /\ pc[r] = "out_check"
  /\ IF files[td[r]]["output.epub"] = -1 \/ files[td[r]]["output.epub"] = 0
     THEN /\ log' = [log EXCEPT ![r] = Append(@, Ev("out_check", FALSE))]
          /\ convert_failed(r, "Conversion failed: output EPUB was not created", <<>>)
     ELSE /\ log' = [log EXCEPT ![r] = Append(@, Ev("out_check", TRUE))]
          /\ pc' = [pc EXCEPT ![r] = "email_host"]
          /\ UNCHANGED exc
  /\ UNCHANGED <<cfgvars, stderr, endpoint, authorization, upload, td, sess, sexc,
                 msg, response, sent, dirs, files>>

\* Variant of tempdir_exit: a directory made with mkdtemp and never removed.
tempdir_exit_keep(r) ==
  /\ pc[r] = "cleanup"
  /\ log' = [log EXCEPT ![r] = Append(@, Ev("rmtree", TRUE))]
  /\ Respond(r, IF exc[r].status = 0 THEN Ok200 ELSE exc[r])
  /\ UNCHANGED <<cfgvars, stderr, endpoint, authorization, upload, td, exc, sess,
                 sexc, msg, sent, dirs, files>>

\* l.179, leaving the `with`: TemporaryDirectory.cleanup removes the
\* directory and what is in it; then the exception reaches the framework,
\* or l.205-206 return the JSONResponse.
tempdir_exit(r) ==
  /\ pc[r] = "cleanup"
  /\ dirs' = [dirs EXCEPT ![td[r]] = 0]
  /\ files' = [files EXCEPT ![td[r]] = [f \in FileNames |-> -1]]
  /\ log' = [log EXCEPT ![r] = Append(@, Ev("rmtree", TRUE))]
  /\ Respond(r, IF exc[r].status = 0 THEN Ok200 ELSE exc[r])
  /\ UNCHANGED <<cfgvars, stderr, endpoint, authorization, upload, td, exc, sess,
                 sexc, msg, sent>>

\* ------------------------------------------- send_email_with_attachment
\* attachment_path: output.epub of the workspace (l.199), or /dev/null
\* (l.219), which exists and reads as no bytes.
attachment_exists(r) ==
  IF endpoint[r] = "/convert" THEN files[td[r]]["output.epub"] # -1
  ELSE DEV_NULL

attachment_size(r) ==
  IF endpoint[r] = "/convert" THEN files[td[r]]["output.epub"] ELSE 0

\* attachment_path.name, as text: the last component of the path.
attachment_name(r) ==
  IF endpoint[r] = "/convert"
  THEN <<"o", "u", "t", "p", "u", "t", ".", "e", "p", "u", "b">>
  ELSE <<"n", "u", "l", "l">>

\* Variant of email_raised: /convert answers a delivery failure with 500.
email_raised_500(r, detail, ext) ==
  IF endpoint[r] = "/convert"
  THEN /\ exc' = [exc EXCEPT ![r] = HTTPException(500, detail, ext)]
       /\ pc' = [pc EXCEPT ![r] = "cleanup"]
       /\ UNCHANGED response
  ELSE /\ pc' = [pc EXCEPT ![r] = "fb_host"]
       /\ UNCHANGED <<exc, response>>

\* The caller's `except Exception` around send_email_with_attachment:
\* /convert raises 502 through the `with` (l.201-203); /test-email drops the
\* exception and goes on to its own plain send (l.221-223).
email_raised(r, detail, ext) ==
  IF endpoint[r] = "/convert"
  THEN /\ exc' = [exc EXCEPT ![r] = HTTPException(502, detail, ext)]
       /\ pc' = [pc EXCEPT ![r] = "cleanup"]
       /\ UNCHANGED response
  ELSE /\ pc' = [pc EXCEPT ![r] = "fb_host"]
       /\ UNCHANGED <<exc, response>>

\* send_email_with_attachment returned: /convert leaves the `with`
\* (l.205), /test-email answers (l.252).
email_returned(r) ==
  IF endpoint[r] = "/convert"
  THEN /\ pc' = [pc EXCEPT ![r] = "cleanup"]
       /\ UNCHANGED <<exc, response>>
  ELSE /\ Respond(r, Ok200)
       /\ UNCHANGED exc

\* l.106-110
email_host(r) ==
  /\ pc[r] = "email_host"
  /\ IF SMTP_HOST = ""
     THEN /\ log' = [log EXCEPT ![r] = Append(@, Ev("host_check", FALSE))]
          /\ email_raised(r, "SMTP_HOST is not set", <<>>)
     ELSE /\ log' = [log EXCEPT ![r] = Append(@, Ev("host_check", TRUE))]
          /\ pc' = [pc EXCEPT ![r] = "email_exists"]
          /\ UNCHANGED <<exc, response>>
  /\ UNCHANGED <<cfgvars, stderr, endpoint, authorization, upload, td, sess, sexc,
                 msg, sent, dirs, files>>

\* Variant of email_exists: a missing attachment is logged and not raised.
email_exists_no_raise(r) ==
  /\ pc[r] = "email_exists"
  /\ log' = [log EXCEPT ![r] = Append(@, Ev("exists", attachment_exists(r)))]
  /\ pc' = [pc EXCEPT ![r] = "email_read"]
  /\ UNCHANGED <<exc, response>>
  /\ UNCHANGED <<cfgvars, stderr, endpoint, authorization, upload, td, sess,
                 sexc, msg, sent, dirs, files>>

\* l.112-114
email_exists(r) ==
  /\ pc[r] = "email_exists"
  /\ IF ~attachment_exists(r)
     THEN /\ log' = [log EXCEPT ![r] = Append(@, Ev("exists", FALSE))]
          /\ email_raised(r, "Attachment not found", <<>>)
     ELSE /\ log' = [log EXCEPT ![r] = Append(@, Ev("exists", TRUE))]
          /\ pc' = [pc EXCEPT ![r] = "email_read"]
          /\ UNCHANGED <<exc, response>>
  /\ UNCHANGED <<cfgvars, stderr, endpoint, authorization, upload, td, sess, sexc,
                 msg, sent, dirs, files>>

\* l.116-132: the attachment is read whole and the message is built with it.
email_read(r) ==
  /\ pc[r] = "email_read"
  /\ msg' = [msg EXCEPT ![r] =
               [to |-> KINDLE_EMAIL,
                attachments |-> << [filename |-> attachment_name(r),
                                    size |-> attachment_size(r)] >>]]
  /\ log' = [log EXCEPT ![r] = Append(@, Ev("read", TRUE))]
  /\ pc' = [pc EXCEPT ![r] = "email_session"]
  /\ sess' = [sess EXCEPT ![r] = "connect"]
  /\ UNCHANGED <<cfgvars, stderr, endpoint, authorization, upload, td, exc, sexc,
                 response, sent, dirs, files>>

\* ------------------------------------------------------- the SMTP session
\* The same session is written twice: l.135-145 and l.236-245.
after_connect == IF SMTP_TLS THEN "tls" ELSE IF SMTP_USER # "" THEN "login" ELSE "send"
after_tls == IF SMTP_USER # "" THEN "login" ELSE "send"

\* smtplib.SMTP(host, port, timeout=30) connected.
SessConnected(r) ==
  /\ sess[r] = "connect"
  /\ log' = [log EXCEPT ![r] = Append(@, Ev("connect", TRUE))]
  /\ sess' = [sess EXCEPT ![r] = after_connect]

\* smtplib.SMTP(...) raised: the `with` body is never entered.
SessRefused(r) ==
  /\ sess[r] = "connect"
  /\ log' = [log EXCEPT ![r] = Append(@, Ev("connect", FALSE))]
  /\ sess' = [sess EXCEPT ![r] = "-"]

\* s.starttls(): done, or raised.
SessStarttls(r) ==
  /\ sess[r] = "tls"
  /\ \/ /\ log' = [log EXCEPT ![r] = Append(@, Ev("starttls", TRUE))]
        /\ sess' = [sess EXCEPT ![r] = after_tls]
        /\ UNCHANGED sexc
     \/ /\ log' = [log EXCEPT ![r] = Append(@, Ev("starttls", FALSE))]
        /\ sess' = [sess EXCEPT ![r] = "exit"]
        /\ sexc' = [sexc EXCEPT ![r] = "other"]

\* s.login(): done, rejected by the server (SMTPAuthenticationError, logged
\* as a failed "login"), or another error (logged as "login_error").
SessLogin(r) ==
  /\ sess[r] = "login"
  /\ \/ /\ log' = [log EXCEPT ![r] = Append(@, Ev("login", TRUE))]
        /\ sess' = [sess EXCEPT ![r] = "send"]
        /\ UNCHANGED sexc
     \/ /\ log' = [log EXCEPT ![r] = Append(@, Ev("login", FALSE))]
        /\ sess' = [sess EXCEPT ![r] = "exit"]
        /\ sexc' = [sexc EXCEPT ![r] = "auth"]
     \/ /\ log' = [log EXCEPT ![r] = Append(@, Ev("login_error", FALSE))]
        /\ sess' = [sess EXCEPT ![r] = "exit"]
        /\ sexc' = [sexc EXCEPT ![r] = "other"]

\* Variant of SessSend: an error of send_message is dropped.
SessSend_swallow(r) ==
  /\ sess[r] = "send"
  /\ sess' = [sess EXCEPT ![r] = "exit"]
  /\ \/ /\ log' = [log EXCEPT ![r] = Append(@, Ev("send", TRUE))]
        /\ sent' = [sent EXCEPT ![r] = Append(@, msg[r])]
        /\ UNCHANGED sexc
     \/ /\ log' = [log EXCEPT ![r] = Append(@, Ev("send", FALSE))]
        /\ UNCHANGED <<sexc, sent>>

\* s.send_message(msg): accepted by the server, or raised.
SessSend(r) ==
  /\ sess[r] = "send"
  /\ sess' = [sess EXCEPT ![r] = "exit"]
  /\ \/ /\ log' = [log EXCEPT ![r] = Append(@, Ev("send", TRUE))]
        /\ sent' = [sent EXCEPT ![r] = Append(@, msg[r])]
        /\ UNCHANGED sexc
     \/ /\ log' = [log EXCEPT ![r] = Append(@, Ev("send", FALSE))]
        /\ sexc' = [sexc EXCEPT ![r] = "other"]
        /\ UNCHANGED sent

\* Leaving `with smtplib.SMTP(...) as s`: SMTP.__exit__ sends QUIT.  A 221
\* reply or a dropped connection lets the body's outcome stand (quit = TRUE);
\* any other reply raises SMTPResponseException in its place.
\* The exception leaving the `with`: "-" none, "auth", "other".
SessLeft(r, quit) == IF quit THEN sexc[r] ELSE "other"

SessExit(r, quit) ==
  /\ sess[r] = "exit"
  /\ log' = [log EXCEPT ![r] = Append(@, Ev("quit", quit))]
  /\ sess' = [sess EXCEPT ![r] = "-"]
  /\ sexc' = [sexc EXCEPT ![r] = "-"]

\* Lengths of the text of a transport error, str(e).
ErrLens == 1..MaxErrLen

\* l.134-135 in send_email_with_attachment; a refusal is l.150-152.
email_connect(r) ==
  /\ pc[r] = "email_session"
  /\ \/ /\ SessConnected(r)
        /\ UNCHANGED <<pc, exc, response>>
     \/ /\ SessRefused(r)
        /\ \E n \in ErrLens : email_raised(r, "Email failed: <e>", Text(n))
  /\ UNCHANGED <<cfgvars, stderr, endpoint, authorization, upload, td, sexc, msg,
                 sent, dirs, files>>

\* l.136-138
email_starttls(r) ==
  /\ pc[r] = "email_session"
  /\ SessStarttls(r)
  /\ UNCHANGED <<cfgvars, stderr, endpoint, pc, authorization, upload, td, exc, msg,
                 response, sent, dirs, files>>

\* l.140-142
email_login(r) ==
  /\ pc[r] = "email_session"
  /\ SessLogin(r)
  /\ UNCHANGED <<cfgvars, stderr, endpoint, pc, authorization, upload, td, exc, msg,
                 response, sent, dirs, files>>

\* l.144-145
email_send(r) ==
  /\ pc[r] = "email_session"
  /\ SessSend(r)
  /\ UNCHANGED <<cfgvars, stderr, endpoint, pc, authorization, upload, td, exc, msg,
                 response, dirs, files>>

\* Leaving the `with` of l.135, then l.147-154: a rejected login becomes its
\* own RuntimeError, anything else "Email failed: {e}", no exception returns.
email_exit(r) ==
  /\ pc[r] = "email_session"
  /\ \E quit \in BOOLEAN :
       /\ SessExit(r, quit)
       /\ LET e == SessLeft(r, quit) IN
            IF e = "-" THEN email_returned(r)
            ELSE IF e = "auth"
            THEN email_raised(r, "Email failed: SMTP authentication failed", <<>>)
            ELSE \E n \in ErrLens : email_raised(r, "Email failed: <e>", Text(n))
  /\ UNCHANGED <<cfgvars, stderr, endpoint, authorization, upload, td, msg, sent,
                 dirs, files>>

\* ------------------------------------------ /test-email's own plain send
\* l.223-234: after the first call raised, a message with no attachment is
\* built for a fixed address.
test_email_fallback(r) ==
  /\ pc[r] = "fb_host"
  /\ IF SMTP_HOST = ""
     THEN /\ log' = [log EXCEPT ![r] = Append(@, Ev("host_check", FALSE))]
          /\ Respond(r, HTTPException(502, "SMTP_HOST is not set", <<>>))
          /\ UNCHANGED <<msg, sess>>
     ELSE /\ log' = [log EXCEPT ![r] = Append(@, Ev("host_check", TRUE))]
          /\ msg' = [msg EXCEPT ![r] = [to |-> FALLBACK_TO, attachments |-> <<>>]]
          /\ pc' = [pc EXCEPT ![r] = "fb_session"]
          /\ sess' = [sess EXCEPT ![r] = "connect"]
          /\ UNCHANGED response
  /\ UNCHANGED <<cfgvars, stderr, endpoint, authorization, upload, td, exc, sexc,
                 sent, dirs, files>>

\* l.236; a refusal is l.248-250.
test_email_connect(r) ==
  /\ pc[r] = "fb_session"
  /\ \/ /\ SessConnected(r)
        /\ UNCHANGED <<pc, response>>
     \/ /\ SessRefused(r)
        /\ \E n \in ErrLens : Respond(r, HTTPException(502, "<e>", Text(n)))
  /\ UNCHANGED <<cfgvars, stderr, endpoint, authorization, upload, td, exc, sexc,
                 msg, sent, dirs, files>>

\* l.237-239
test_email_starttls(r) ==
  /\ pc[r] = "fb_session"
  /\ SessStarttls(r)
  /\ UNCHANGED <<cfgvars, stderr, endpoint, pc, authorization, upload, td, exc, msg,
                 response, sent, dirs, files>>

\* l.240-242
test_email_login(r) ==
  /\ pc[r] = "fb_session"
  /\ SessLogin(r)
  /\ UNCHANGED <<cfgvars, stderr, endpoint, pc, authorization, upload, td, exc, msg,
                 response, sent, dirs, files>>

\* l.244-245
test_email_send(r) ==
  /\ pc[r] = "fb_session"
  /\ SessSend(r)
  /\ UNCHANGED <<cfgvars, stderr, endpoint, pc, authorization, upload, td, exc, msg,
                 response, dirs, files>>

\* Leaving the `with` of l.236, then l.247-252: any exception is a 502 with
\* its text, no exception answers 200.
test_email_exit(r) ==
  /\ pc[r] = "fb_session"
  /\ \E quit \in BOOLEAN :
       /\ SessExit(r, quit)
       /\ IF SessLeft(r, quit) = "-" THEN Respond(r, Ok200)
          ELSE \E n \in ErrLens : Respond(r, HTTPException(502, "<e>", Text(n)))
  /\ UNCHANGED <<cfgvars, stderr, endpoint, authorization, upload, td, exc, msg,
                 sent, dirs, files>>

\* ---------------------------------------------------------- specification
Next ==
  \E r \in Reqs :
    \/ \E h \in ReqHeaders : convert_auth(r, h)
    \/ \E h \in ReqHeaders : test_email_auth(r, h)
    \/ \E ct \in ContentTypes, n \in Sizes : convert_check_type(r, ct, n)
    \/ convert_check_size(r)
    \/ tempdir_enter(r)
    \/ write_input(r)
    \/ pdf_to_epub_run(r)
    \/ pdf_to_epub_check(r)
    \/ email_host(r)
    \/ email_exists(r)
    \/ email_read(r)
    \/ email_connect(r)
    \/ email_starttls(r)
    \/ email_login(r)
    \/ email_send(r)
    \/ email_exit(r)
    \/ test_email_fallback(r)
    \/ test_email_connect(r)
    \/ test_email_starttls(r)
    \/ test_email_login(r)
    \/ test_email_send(r)
    \/ test_email_exit(r)
    \/ tempdir_exit(r)

Spec == Init /\ [][Next]_vars

\* Every step of a /convert request after its arrival: the handler's own
\* straight-line code, the wait for the converter process to exit (l.78) and
\* the calls of the SMTP session, each of which returns or times out (l.135,
\* timeout=30).
Progress(r) ==
  \/ \E ct \in ContentTypes, n \in Sizes : convert_check_type(r, ct, n)
  \/ convert_check_size(r)
  \/ tempdir_enter(r)
  \/ write_input(r)
  \/ pdf_to_epub_run(r)
  \/ pdf_to_epub_check(r)
  \/ email_host(r)
  \/ email_exists(r)
  \/ email_read(r)
  \/ email_connect(r)
  \/ email_starttls(r)
  \/ email_login(r)
  \/ email_send(r)
  \/ email_exit(r)
  \/ tempdir_exit(r)

\* /convert requests alone, on POSIX (/dev/null plays no part in /convert).
InitLive == Init /\ DEV_NULL

NextLive ==
  \E r \in Reqs :
    \/ \E h \in ReqHeaders : convert_auth(r, h)
    \/ Progress(r)

\* Requests arrive when they will; a request that has arrived keeps running.
SpecLive ==
  InitLive /\ [][NextLive]_vars /\ \A r \in Reqs : WF_vars(Progress(r))

\* require_bearer on its own: every header against every secret.
InitAuth ==
  /\ SMTP_HOST = "smtp.example.com"
  /\ SMTP_TLS = TRUE
  /\ SMTP_USER = "user"
  /\ BEARER_TOKEN \in Secrets
  /\ DEV_NULL = TRUE
  /\ ReqInit

NextAuth ==
  \E r \in Reqs :
    \/ \E h \in AllHeaders : convert_auth(r, h)
    \/ \E h \in AllHeaders : test_email_auth(r, h)

SpecAuth == InitAuth /\ [][NextAuth]_vars

\* ------------------------------------------------------------- properties
Has(r, op, ok) == \E i \in DOMAIN log[r] : log[r][i] = Ev(op, ok)
Count(r, ops) == Cardinality({i \in DOMAIN log[r] : log[r][i].op \in ops})
Authorized(r) == Has(r, "auth", TRUE)
Answered(r) == response[r].status # 0
OwnsDir(r) == \E d \in DirNames : dirs[d] = r
endswith(s, p) == Len(s) >= Len(p) /\ SubSeq(s, Len(s) - Len(p) + 1, Len(s)) = p

\* C1: a /convert request that created a workspace removes it exactly once
\* on every way out, and when its response (200, 500 or 502) is produced no
\* directory of that request exists; before the response the directory is
\* there and has not been removed.
C1_WorkspaceReleased ==
  \A r \in Reqs :
    /\ Count(r, {"rmtree"}) <= 1
    /\ (Has(r, "mkdtemp", TRUE) /\ Answered(r))
         => /\ Count(r, {"rmtree"}) = 1
            /\ ~OwnsDir(r)
            /\ response[r].status \in {200, 500, 502}
    /\ (Has(r, "mkdtemp", TRUE) /\ ~Answered(r))
         => /\ Count(r, {"rmtree"}) = 0
            /\ dirs[td[r]] = r
    /\ ~Has(r, "mkdtemp", TRUE) => (~OwnsDir(r) /\ Count(r, {"rmtree"}) = 0)

\* C1 witness: a delivery failure (502) after the workspace was made, both
\* requests answered, one of them with 200.
C1_Witness ==
  \E r, q \in Reqs :
    /\ response[r].status = 502 /\ Has(r, "mkdtemp", TRUE)
    /\ response[q].status = 200 /\ Has(q, "mkdtemp", TRUE)
    /\ td[r] = td[q]

\* The classification C2 states, written from the header's characters: a
\* header is malformed when it is absent, when its first seven characters
\* are not "Bearer ", or when nothing but whitespace follows them.
C2_Malformed(h) ==
  \/ h = <<>>
  \/ Len(h[1]) < 7
  \/ \E i \in 1..7 : h[1][i] # Bearer[i]
  \/ \A i \in 8..Len(h[1]) : h[1][i] \in Whitespace

\* The token of a well-formed header: from the first to the last character
\* after the prefix that is not whitespace.
C2_Token(h) ==
  LET t == h[1]
      ink == {i \in 8..Len(t) : t[i] \notin Whitespace}
      lo == CHOOSE i \in ink : \A j \in ink : i <= j
      hi == CHOOSE i \in ink : \A j \in ink : j <= i
  IN  [i \in 1..(hi - lo + 1) |-> t[lo + i - 1]]

\* C2: require_bearer answers 401 exactly for the malformed headers, 403
\* exactly for a well-formed header whose token differs from the secret,
\* and lets every other header through.
C2_BearerClassification ==
  \A r \in Reqs :
    pc[r] # "idle" =>
      LET h == authorization[r] IN
        IF C2_Malformed(h)
        THEN response[r].status = 401 /\ ~Authorized(r)
        ELSE IF C2_Token(h) # BEARER_TOKEN
        THEN response[r].status = 403 /\ ~Authorized(r)
        ELSE response[r].status = 0 /\ Authorized(r) /\ pc[r] # "done"

\* C2 witness: a token padded with whitespace is accepted while a wrong
\* token is answered 403.
C2_Witness ==
  \E r, q \in Reqs :
    /\ authorization[r] = << Bearer \o <<" ">> \o S3 \o <<" ">> >>
    /\ Authorized(r)
    /\ authorization[q] = << Bearer \o S3 \o <<"x">> >>
    /\ response[q].status = 403

Accepted(ct) == ct \in {"application/pdf", "application/octet-stream"}
Validating(r) == endpoint[r] = "/convert" /\ pc[r] \notin {"idle", "check_type"}

\* C3 as stated: an authorized /convert request with a payload longer than
\* MAX_PDF_BYTES is answered 413 whatever its content type.
C3_Original ==
  \A r \in Reqs :
    (Validating(r) /\ Authorized(r) /\ upload[r].size > MAX_PDF_BYTES
       /\ pc[r] = "done")
      => response[r].status = 413 /\ ~OwnsDir(r)

\* C3 amended: an authorized /convert request with an accepted content type
\* and a payload longer than MAX_PDF_BYTES is answered 413, and it never
\* makes a workspace; with a content type that is not accepted it is
\* answered 400.
C3_TooLarge ==
  \A r \in Reqs :
    (Validating(r) /\ Authorized(r) /\ upload[r].size > MAX_PDF_BYTES)
      => /\ pc[r] \in {"check_size", "done"}
         /\ pc[r] = "done" =>
              response[r].status = IF Accepted(upload[r].content_type)
                                   THEN 413 ELSE 400
         /\ ~Has(r, "mkdtemp", TRUE) /\ ~Has(r, "mkdtemp", FALSE)
         /\ ~OwnsDir(r) /\ td[r] = 0

\* C3 witness: a payload of MAX_PDF_BYTES + 1 with an accepted type was
\* answered 413.
C3_Witness ==
  \E r \in Reqs :
    /\ upload[r] = [content_type |-> "application/pdf",
                    size |-> MAX_PDF_BYTES + 1]
    /\ response[r].status = 413

\* C4: the type is checked before the size: a content type that is not
\* accepted is answered 400 whatever the length, and 413 is answered only
\* for an accepted type with a length above MAX_PDF_BYTES.
C4_TypeBeforeSize ==
  \A r \in Reqs :
    (Validating(r) /\ Authorized(r)) =>
      /\ ~Accepted(upload[r].content_type)
           => pc[r] = "done" /\ response[r].status = 400
      /\ response[r].status = 400 => ~Accepted(upload[r].content_type)
      /\ response[r].status = 413
           => Accepted(upload[r].content_type)
              /\ upload[r].size > MAX_PDF_BYTES

\* C4 witness: a payload that is too large and of the wrong type got 400.
C4_Witness ==
  \E r \in Reqs :
    /\ upload[r] = [content_type |-> "text/plain", size |-> MAX_PDF_BYTES + 1]
    /\ response[r].status = 400

ConversionFailed(r) ==
  Has(r, "spawn", FALSE) \/ Has(r, "run", FALSE) \/ Has(r, "out_check", FALSE)

DeliveryFailed(r) ==
  \E op \in {"host_check", "exists", "read", "connect", "starttls", "login",
             "login_error", "send", "quit"} : Has(r, op, FALSE)

\* C5: on /convert, after authorization and validation, a converter failure
\* is answered 500 and a delivery failure after a good conversion 502; with
\* the mail host unset a good conversion is answered 502.
C5_StageStatus ==
  \A r \in Reqs :
    (endpoint[r] = "/convert" /\ Answered(r)) =>
      /\ ConversionFailed(r) => response[r].status = 500 /\ ~DeliveryFailed(r)
      /\ (Has(r, "out_check", TRUE) /\ DeliveryFailed(r))
           => response[r].status = 502
      /\ (Has(r, "out_check", TRUE) /\ SMTP_HOST = "")
           => response[r].status = 502
      /\ response[r].status = 502 => Has(r, "out_check", TRUE)

\* C5 witness: one request failed in the converter (500), another converted
\* and found the mail host unset (502).
C5_Witness ==
  \E r, q \in Reqs :
    /\ response[r].status = 500 /\ Has(r, "run", FALSE)
    /\ response[q].status = 502 /\ Has(q, "out_check", TRUE)
    /\ Has(q, "host_check", FALSE)

Failed(r) == \E i \in DOMAIN log[r] : ~log[r][i].ok

\* C6: on either endpoint, a request during which a component call failed
\* (authorization, validation, conversion, a mail-delivery call) is never
\* answered 200.
C6_NoFailureSwallowed ==
  \A r \in Reqs : response[r].status = 200 => ~Failed(r)

\* C7: within one request, on either endpoint, the converter is started at
\* most once and at most one mail-transport session is opened.
C7_NoRetry ==
  \A r \in Reqs :
    /\ Count(r, {"run", "spawn"}) <= 1
    /\ Count(r, {"connect"}) <= 1

\* Whether send_email_with_attachment, once called, has returned normally:
\* /convert then leaves the `with` with nothing raised, /test-email answers
\* 200 without having built its own message.
EmailCallReturned(r) ==
  /\ Has(r, "read", TRUE)
  /\ IF endpoint[r] = "/convert"
     THEN pc[r] \in {"cleanup", "done"} /\ exc[r].status = 0
     ELSE pc[r] = "done" /\ response[r].status = 200 /\ msg[r].to = KINDLE_EMAIL

\* The messages a call of send_email_with_attachment sent: those built at
\* l.119-129, which carry the attachment.
SentByEmailCall(r) == {i \in DOMAIN sent[r] : sent[r][i].attachments # <<>>}

\* C8: a call of send_email_with_attachment sends at most one message and,
\* when it returns normally, exactly one; /convert answers 200 only when
\* exactly one message was sent, to KINDLE_EMAIL, with exactly one attachment
\* whose filename ends in ".epub".
C8_OneMessage ==
  \A r \in Reqs :
    /\ Cardinality(SentByEmailCall(r)) <= 1
    /\ EmailCallReturned(r) => Cardinality(SentByEmailCall(r)) = 1
    /\ (endpoint[r] = "/convert" /\ response[r].status = 200)
         => /\ Len(sent[r]) = 1
            /\ sent[r][1].to = KINDLE_EMAIL
            /\ Len(sent[r][1].attachments) = 1
            /\ endswith(sent[r][1].attachments[1].filename,
                        <<".", "e", "p", "u", "b">>)
            /\ Has(r, "send", TRUE)
    /\ endpoint[r] = "/convert" => Len(sent[r]) <= 1

\* C8 witness: /convert answered 200 after its one message, and a call whose
\* QUIT was refused after the message was accepted failed with 502.
C8_Witness ==
  \E r, q \in Reqs :
    /\ endpoint[r] = "/convert" /\ response[r].status = 200
    /\ Len(sent[r]) = 1
    /\ endpoint[q] = "/convert" /\ response[q].status = 502
    /\ Len(sent[q]) = 1

\* C9: every message sent while handling /test-email carries no attachment;
\* the request is answered 200 when the test message was sent and 502 when
\* sending failed.
C9_TestEmailPlain ==
  \A r \in Reqs :
    (endpoint[r] = "/test-email" /\ Authorized(r)) =>
      /\ \A i \in DOMAIN sent[r] : sent[r][i].attachments = <<>>
      /\ response[r].status = 200 => sent[r] # <<>>
      /\ (pc[r] = "done" /\ sent[r] = <<>>) => response[r].status = 502

\* C10: pdf_to_epub returns normally only after the converter exited 0 and
\* with an output file that exists and is not empty; when the converter
\* exits 0 and the output is missing or empty, /convert answers 500 and no
\* SMTP connection is opened.
C10_NonEmptyArtifact ==
  \A r \in Reqs :
    endpoint[r] = "/convert" =>
      /\ Has(r, "out_check", TRUE) => Has(r, "run", TRUE)
      /\ (Has(r, "out_check", TRUE) /\ pc[r] # "done")
           => files[td[r]]["output.epub"] >= 1
      /\ (Has(r, "run", TRUE) /\ pc[r] \notin {"out_check", "done"})
           => (Has(r, "out_check", TRUE) <=> files[td[r]]["output.epub"] >= 1)
      /\ Has(r, "out_check", FALSE)
           => /\ Count(r, {"host_check", "exists", "read", "connect"}) = 0
              /\ sent[r] = <<>>
              /\ Answered(r) => response[r].status = 500
      /\ \A i \in DOMAIN sent[r] : sent[r][i].attachments[1].size >= 1

\* C10 witness: the converter exited 0 with an empty output and the request
\* was answered 500.
C10_Witness ==
  \E r \in Reqs :
    /\ Has(r, "run", TRUE) /\ Has(r, "out_check", FALSE)
    /\ response[r].status = 500
    /\ \E q \in Reqs : Has(q, "out_check", TRUE) /\ response[q].status = 200

IsSuffix(t, s) ==
  Len(t) <= Len(s) /\ \A i \in 1..Len(t) : t[i] = s[Len(s) - Len(t) + i]

\* C11: when the converter starts and exits non-zero, /convert answers 500
\* and the body carries an excerpt of the converter's stderr: a suffix of the
\* stream, never longer than the tail limit, and the whole stream when that
\* is no longer than the limit.
C11_StderrExcerpt ==
  \A r \in Reqs :
    Has(r, "run", FALSE) =>
      /\ pc[r] \in {"cleanup", "done"}
      /\ LET body == IF pc[r] = "done" THEN response[r] ELSE exc[r] IN
           /\ body.status = 500
           /\ body.detail = "Conversion failed: <stderr>"
           /\ Len(body.ext) <= STDERR_TAIL
           /\ IsSuffix(body.ext, stderr[r])
           /\ Len(stderr[r]) <= STDERR_TAIL => body.ext = stderr[r]
           /\ Len(stderr[r]) > STDERR_TAIL => Len(body.ext) = STDERR_TAIL

\* C11 witness: a stderr longer than the limit was cut to its tail in a 500.
C11_Witness ==
  \E r \in Reqs :
    /\ Has(r, "run", FALSE) /\ response[r].status = 500
    /\ Len(stderr[r]) > STDERR_TAIL
    /\ response[r].ext # <<>>
    /\ response[r].ext # stderr[r]

\* C12: in every 500 or 502 response of /convert the converter or transport
\* text embedded in the body is no longer than a fixed limit (the one limit
\* the program has, the stderr tail), however long the text produced.
C12_BodiesTruncated ==
  \A r \in Reqs :
    (endpoint[r] = "/convert" /\ response[r].status \in {500, 502})
      => Len(response[r].ext) <= STDERR_TAIL

\* The part of a request's log that belongs to its call of
\* send_email_with_attachment: it ends where /test-email's own send starts,
\* at the second check of SMTP_HOST (l.224).
EmailCallLog(r) ==
  LET hc == {i \in DOMAIN log[r] : log[r][i].op = "host_check"}
      second == {i \in hc : \E j \in hc : j < i}
  IN  IF second = {} THEN log[r]
      ELSE SubSeq(log[r], 1, (CHOOSE i \in second : \A j \in second : i <= j) - 1)

\* C13: send_email_with_attachment opens no connection when SMTP_HOST is
\* unset or the attachment path does not exist; whenever it opens one, the
\* host check, the existence check and the read of the attachment are the
\* three calls just before it, in that order, and the message holds all the
\* bytes of the file.
C13_PreSessionChecks ==
  \A r \in Reqs :
    LET call == EmailCallLog(r)
        opens == {i \in DOMAIN call : call[i].op = "connect"}
    IN  /\ (\E i \in DOMAIN call :
              call[i] \in {Ev("host_check", FALSE), Ev("exists", FALSE)})
             => opens = {}
        /\ SMTP_HOST = "" => Count(r, {"connect"}) = 0
        /\ \A i \in opens :
             /\ i > 3
             /\ call[i - 3] = Ev("host_check", TRUE)
             /\ call[i - 2] = Ev("exists", TRUE)
             /\ call[i - 1] = Ev("read", TRUE)
        /\ (opens # {} /\ endpoint[r] = "/convert" /\ pc[r] # "done")
             => msg[r].attachments[1].size = files[td[r]]["output.epub"]

\* C13 witness: one call failed on a missing attachment without connecting,
\* another connected after its three checks.
C13_Witness ==
  \E r, q \in Reqs :
    /\ Has(r, "exists", FALSE) /\ pc[r] = "fb_host"
    /\ Count(r, {"connect"}) = 0
    /\ Has(q, "read", TRUE) /\ Has(q, "connect", TRUE)

\* The orchestrator state of spec section 4.5 a /convert request is in.
OrchState(p, e, resp) ==
  CASE p = "idle" -> "Received"
    [] p \in {"check_type", "check_size"} -> "Authorized"
    [] p = "mkdtemp" -> "Validated"
    [] p \in {"write", "run", "out_check"} -> "WorkspaceAcquired"
    [] p \in {"email_host", "email_exists", "email_read", "email_session"}
         -> IF e.status = 0 THEN "Converted" ELSE "Failed-and-running"
    [] p = "cleanup" -> IF e.status = 0 THEN "Delivered" ELSE "Failed"
    [] p = "done" -> IF resp.status = 200 THEN "Done" ELSE "Failed"
    [] OTHER -> "none"

OrchOrder == <<"Received", "Authorized", "Validated", "WorkspaceAcquired",
               "Converted", "Delivered", "Done">>

OrchAllowed(a, b) ==
  \/ a = b
  \/ \E i \in 1..(Len(OrchOrder) - 1) : a = OrchOrder[i] /\ b = OrchOrder[i + 1]
  \/ a \in {OrchOrder[i] : i \in 1..(Len(OrchOrder) - 1)} /\ b = "Failed"

C14_Step ==
  \A r \in Reqs :
    endpoint'[r] = "/convert" =>
      OrchAllowed(OrchState(pc[r], exc[r], response[r]),
                  OrchState(pc'[r], exc'[r], response'[r]))

C14_Absorbing ==
  \A r \in Reqs :
    /\ ~Authorized(r)
         => /\ \A i \in DOMAIN log[r] : log[r][i].op = "auth"
            /\ sent[r] = <<>> /\ td[r] = 0 /\ ~OwnsDir(r)
    /\ (Has(r, "check_type", FALSE) \/ Has(r, "check_size", FALSE))
         => /\ Count(r, {"mkdtemp", "write", "run", "spawn", "connect"}) = 0
            /\ td[r] = 0 /\ sent[r] = <<>>
    /\ (endpoint[r] = "/convert" /\ ConversionFailed(r))
         => /\ Count(r, {"host_check", "exists", "read", "connect", "send"}) = 0
            /\ sent[r] = <<>>
    /\ (endpoint[r] = "/convert" /\ Has(r, "mkdtemp", FALSE))
         => Count(r, {"write", "run", "spawn", "connect"}) = 0

\* C14: a /convert request moves only along Received, Authorized, Validated,
\* WorkspaceAcquired, Converted, Delivered, Done, or from a non-terminal state
\* into Failed, which it never leaves; after a failed authorization or
\* validation no workspace is made and the converter is not started, after a
\* failed conversion no SMTP connection is opened, and an unauthorized
\* request never runs the converter or sends a message.
C14_StateMachine == [][C14_Step]_vars /\ []C14_Absorbing

\* C14 witness: one request went all the way to Done, another failed in the
\* conversion and was answered.
C14_Witness ==
  \E r, q \in Reqs :
    /\ endpoint[r] = "/convert" /\ response[r].status = 200
    /\ endpoint[q] = "/convert" /\ ConversionFailed(q)
    /\ response[q].status = 500

\* The index in log[r] of the connect that opened the session event i is in.
SessionStart(r, i) ==
  CHOOSE c \in 1..i :
    /\ log[r][c].op = "connect"
    /\ \A j \in (c + 1)..i : log[r][j].op # "connect"

SessionOps == {"starttls", "login", "login_error", "send", "quit"}

\* Whether an event equal to ev lies in i's session before i.
EarlierInSession(r, i, ev) ==
  \E j \in (SessionStart(r, i) + 1)..(i - 1) : log[r][j] = ev

\* C15: in every SMTP session, with TLS configured starttls succeeds before
\* any login and before the message is sent; with a user configured the
\* login succeeds before the message is sent; nothing is sent after a failed
\* starttls or login; and a request whose last session had its login
\* rejected is answered with the authentication failure text, not with a
\* generic delivery failure.
C15_SessionProtocol ==
  \A r \in Reqs :
    /\ \A i \in DOMAIN log[r] :
         /\ (SMTP_TLS /\ log[r][i].op \in {"login", "login_error", "send"})
              => EarlierInSession(r, i, Ev("starttls", TRUE))
         /\ (SMTP_USER # "" /\ log[r][i].op = "send")
              => EarlierInSession(r, i, Ev("login", TRUE))
         /\ log[r][i].op = "send"
              => /\ ~EarlierInSession(r, i, Ev("starttls", FALSE))
                 /\ ~EarlierInSession(r, i, Ev("login", FALSE))
                 /\ ~EarlierInSession(r, i, Ev("login_error", FALSE))
    /\ (pc[r] = "done" /\ log[r] # <<>> /\ Has(r, "connect", TRUE)
          /\ \E i \in DOMAIN log[r] :
                /\ log[r][i] = Ev("login", FALSE)
                /\ SessionStart(r, i) = SessionStart(r, Len(log[r])))
         => /\ response[r].status = 502
            /\ response[r].detail = "Email failed: SMTP authentication failed"

\* Inside the `with` of l.179: the directory is made and not yet removed.
InWorkspace(r) ==
  /\ endpoint[r] = "/convert"
  /\ pc[r] \in {"write", "run", "out_check", "email_host", "email_exists",
                "email_read", "email_session", "cleanup"}

C16_Isolated ==
  \A r \in Reqs :
    InWorkspace(r) =>
      /\ td[r] \in DirNames /\ dirs[td[r]] = r
      /\ \A q \in Reqs \ {r} : InWorkspace(q) => td[q] # td[r]
      /\ pc[r] = "write" => files[td[r]] = [f \in FileNames |-> -1]
      /\ pc[r] \in {"run", "out_check", "email_host", "email_exists",
                    "email_read", "email_session"}
           => files[td[r]]["input.pdf"] = upload[r].size
      /\ pc[r] = "run" => files[td[r]]["output.epub"] = -1
      /\ pc[r] \in {"email_host", "email_exists", "email_read", "email_session"}
           => files[td[r]]["output.epub"] >= 1

\* A step of another request leaves the directory and the files of a request
\* that is inside its workspace as they are.
C16_Step ==
  \A r \in Reqs :
    (InWorkspace(r) /\ pc'[r] = pc[r] /\ log'[r] = log[r])
      => /\ dirs'[td[r]] = dirs[td[r]]
         /\ files'[td[r]] = files[td[r]]

\* C16: for any interleaving of /convert requests, the directories of the
\* requests in flight are distinct, each request finds in its directory
\* exactly what it wrote itself, and no step of another request (its release
\* included) changes or removes the directory or files of a request that has
\* not finished.
C16_WorkspaceIsolation == []C16_Isolated /\ [][C16_Step]_vars

\* C16 witness: two requests are inside their workspaces together, one about
\* to release its directory, the other with its output written.
C16_Witness ==
  \E r, q \in Reqs :
    /\ r # q
    /\ InWorkspace(r) /\ InWorkspace(q)
    /\ pc[r] = "cleanup" /\ pc[q] = "email_session"
    /\ dirs[td[r]] = r /\ dirs[td[q]] = q

\* C17: with the converter process exiting and every SMTP call returning or
\* timing out, every /convert request that arrived is eventually answered
\* (200 or an error status) with its workspace released; no step waits on
\* anything else or repeats.
C17_Termination ==
  \A r \in Reqs :
    (endpoint[r] = "/convert")
      ~> (pc[r] = "done" /\ Answered(r) /\ ~OwnsDir(r))

\* C17 witness: both /convert requests ended, one Done with 200 and one
\* Failed in delivery, both having waited on the converter and on SMTP.
C17_Witness ==
  \E r, q \in Reqs :
    /\ endpoint[r] = "/convert" /\ pc[r] = "done" /\ response[r].status = 200
    /\ endpoint[q] = "/convert" /\ pc[q] = "done" /\ response[q].status = 502
    /\ Has(q, "run", TRUE) /\ Has(q, "quit", TRUE) /\ Has(q, "send", FALSE)
    /\ ~OwnsDir(r) /\ ~OwnsDir(q)

\* C18: on both endpoints, when the response is 200 with sent_to = A (the
\* detail of the 200), every message sent during the request was addressed
\* to A and at least one was sent.
C18_ReportedRecipient ==
  \A r \in Reqs :
    response[r].status = 200 =>
      /\ sent[r] # <<>>
      /\ \A i \in DOMAIN sent[r] : sent[r][i].to = response[r].detail

====
